---------------------------- MODULE Spec2Model ----------------------------
(***************************************************************************)
(* A model of the SQL Guard (llm/sql_guard.py) and of its callers.         *)
(*                                                                         *)
(* Text is modelled character by character: a text is a TLA+ string, a     *)
(* character is a string of length one, and every regular expression of    *)
(* the source is an operator that scans the text the way the expression    *)
(* does.  validate_sql is a state machine with one action per check of     *)
(* its body, in source order.                                              *)
(*                                                                         *)
(* The backquote character cannot be written inside a TLA+ string, so the  *)
(* model writes the tilde for it (BackQuote); no other character of the    *)
(* model's texts is a tilde.                                               *)
(***************************************************************************)
EXTENDS Integers, Sequences, FiniteSets, TLC

VARIABLES
    pc,           \* the position inside validate_sql; "idle" between calls
    sql_or_text,  \* the argument of the current call
    raw,          \* the local raw of validate_sql
    norm,         \* the local norm of validate_sql
    table,        \* the local table of validate_sql
    selected,     \* the local selected of validate_sql
    result,       \* the string the call returned ("" until it returns)
    error,        \* the SQLGuardError the call raised (NoError until it raises)
    earlier,      \* what a caller that calls twice keeps of its first call (None otherwise)
    app,          \* the position of the Ask AI page inside its run handler
    executed,     \* the statement the page gave to the engine in this run (None if none)
    args,         \* the arguments of the daily pipeline's run (NoArgs between runs)
    stage,        \* the position of the daily pipeline inside its main
    trace,        \* the stages this run of the pipeline has run, each with how it ended
    mart_daily_insight,  \* the rows of the table mart_daily_insight (None: no such table)
    reports,      \* the insight files of data/reports: their names and contents
    saved,        \* the arguments and the outcome of the latest save_outputs call
    csv,          \* the files of data/raw: their names and rows
    raw_ad_events,       \* the rows of the table raw.ad_events
    raw_payment_events,  \* the rows of the table raw.payment_events
    loaded        \* the argument and the outcome of the latest load_csv_for_date call

\* the state of validate_sql's callers
callerVars == <<earlier, app, executed>>

\* the state of the batch scripts
batchVars ==
    <<args, stage, trace, mart_daily_insight, reports, saved,
      csv, raw_ad_events, raw_payment_events, loaded>>

vars ==
    <<pc, sql_or_text, raw, norm, table, selected, result, error, earlier, app, executed,
      args, stage, trace, mart_daily_insight, reports, saved,
      csv, raw_ad_events, raw_payment_events, loaded>>

-----------------------------------------------------------------------------
(* Characters *)

BackQuote == "~"

LowerLetters == "abcdefghijklmnopqrstuvwxyz"

UpperLetters == "ABCDEFGHIJKLMNOPQRSTUVWXYZ"

Digits == "0123456789"

Char(s, i) == SubSeq(s, i, i)

CharsOf(s) == {Char(s, i) : i \in 1..Len(s)}

\* str.lower() on one character
LowerMap == [c \in CharsOf(UpperLetters) |->
               Char(LowerLetters, CHOOSE i \in 1..Len(UpperLetters) : Char(UpperLetters, i) = c)]

ToLower(c) == IF c \in DOMAIN LowerMap THEN LowerMap[c] ELSE c

\* the class \s of re, and the characters str.strip() removes
SpaceChars == {" ", "\n", "\t", "\r"}

IsSpace(c) == c \in SpaceChars

\* the class \d
DigitChars == CharsOf(Digits)

IsDigit(c) == c \in DigitChars

\* the class \w, which decides where \b holds
WordChars == CharsOf(LowerLetters) \cup CharsOf(UpperLetters) \cup DigitChars \cup {"_"}

IsWord(c) == c \in WordChars

\* the class [a-zA-Z0-9_.] of _extract_table
TableChars == WordChars \cup {"."}

\* the class [a-zA-Z_] that starts an identifier in _extract_selected_columns
IdentStartChars == CharsOf(LowerLetters) \cup CharsOf(UpperLetters) \cup {"_"}

-----------------------------------------------------------------------------
(* Strings *)

\* the least i in lo..hi with P(i), or hi + 1 when there is none (found by halving, so
\* that the evaluation never nests deeper than the logarithm of the length)
RECURSIVE First(_, _, _)
First(P(_), lo, hi) ==
    IF lo > hi THEN lo
    ELSE IF lo = hi THEN (IF P(lo) THEN lo ELSE hi + 1)
    ELSE LET mid == (lo + hi) \div 2
             l   == First(P, lo, mid)
         IN  IF l <= mid THEN l ELSE First(P, mid + 1, hi)

\* the greatest i in lo..hi with P(i), or lo - 1 when there is none
RECURSIVE Last(_, _, _)
Last(P(_), lo, hi) ==
    IF lo > hi THEN hi
    ELSE IF lo = hi THEN (IF P(lo) THEN lo ELSE lo - 1)
    ELSE LET mid == (lo + hi) \div 2
             r   == Last(P, mid + 1, hi)
         IN  IF r > mid THEN r ELSE Last(P, lo, mid)

\* f(lo) \o ... \o f(hi)
RECURSIVE Concat(_, _, _)
Concat(f(_), lo, hi) ==
    IF lo > hi THEN ""
    ELSE IF lo = hi THEN f(lo)
    ELSE LET mid == (lo + hi) \div 2 IN Concat(f, lo, mid) \o Concat(f, mid + 1, hi)

\* str.lower()
Lower(s) == LET f(i) == ToLower(Char(s, i)) IN Concat(f, 1, Len(s))

\* str.strip()
strip(s) ==
    LET NotSpace(i) == ~IsSpace(Char(s, i))
    IN  SubSeq(s, First(NotSpace, 1, Len(s)), Last(NotSpace, 1, Len(s)))

\* str.rstrip()
rstrip(s) ==
    LET NotSpace(i) == ~IsSpace(Char(s, i))
    IN  SubSeq(s, 1, Last(NotSpace, 1, Len(s)))

\* s[i:].startswith(w), for a 1-based i
MatchAt(s, w, i) == i >= 1 /\ i + Len(w) - 1 <= Len(s) /\ SubSeq(s, i, i + Len(w) - 1) = w

\* s[i:].lower().startswith(w), for a 1-based i and a lower-case w: a match under re.IGNORECASE
MatchAtCI(s, w, i) ==
    /\ i >= 1
    /\ i + Len(w) - 1 <= Len(s)
    /\ ToLower(Char(s, i)) = Char(w, 1)
    /\ Lower(SubSeq(s, i, i + Len(w) - 1)) = w

\* w in s
Contains(s, w) == \E i \in 1..Len(s) : MatchAt(s, w, i)

startswith(s, w) == MatchAt(s, w, 1)

endswith(s, w) == Len(w) <= Len(s) /\ MatchAt(s, w, Len(s) - Len(w) + 1)

\* re.sub and str.replace: the matches of a pattern replaced by repl, left to right and
\* not overlapping, from index i on.  Starts(j) says that the pattern matches at j,
\* End(j) is the index after that match.
RECURSIVE Substitute(_, _, _, _, _)
Substitute(s, Starts(_), End(_), repl, i) ==
    LET j == First(Starts, i, Len(s))
    IN  IF j > Len(s) THEN SubSeq(s, i, Len(s))
        ELSE SubSeq(s, i, j - 1) \o repl \o Substitute(s, Starts, End, repl, End(j))

\* the index after the longest run of characters of class C that starts at i
RunEnd(s, C, i) == LET Other(k) == Char(s, k) \notin C IN First(Other, i, Len(s))

\* \b holds between positions i - 1 and i of s
Boundary(s, i) ==
    LET before == i > 1 /\ i - 1 <= Len(s) /\ IsWord(Char(s, i - 1))
        after  == i >= 1 /\ i <= Len(s) /\ IsWord(Char(s, i))
    IN  before # after

\* \bw\b matches at i
WordAt(s, w, i) == MatchAt(s, w, i) /\ Boundary(s, i) /\ Boundary(s, i + Len(w))

\* re.search(r"\bw\b", s)
HasWord(s, w) == \E i \in 1..Len(s) : WordAt(s, w, i)

\* int() of a string of digits
DigitValue(c) == (CHOOSE i \in 1..Len(Digits) : Char(Digits, i) = c) - 1

RECURSIVE int(_)
int(s) == IF s = "" THEN 0 ELSE 10 * int(SubSeq(s, 1, Len(s) - 1)) + DigitValue(Char(s, Len(s)))

\* re.sub(r"\s+", " ", s).strip(): of every run of white space the first character is
\* kept, as a space
_collapse_ws(s) ==
    LET f(i) == IF ~IsSpace(Char(s, i)) THEN Char(s, i)
                ELSE IF i > 1 /\ IsSpace(Char(s, i - 1)) THEN ""
                ELSE " "
    IN  strip(Concat(f, 1, Len(s)))

-----------------------------------------------------------------------------
(* Policy *)

ALLOWED_TABLES == {"mart.daily_campaign_kpi", "mart_daily_insight", "mart_daily_insight_latest"}

InsightColumns == {"event_date", "headline", "risk_level", "summary_md", "created_at"}

ALLOWED_COLUMNS ==
    [t \in ALLOWED_TABLES |->
        IF t = "mart.daily_campaign_kpi"
        THEN {"event_date", "campaign_id", "impressions", "clicks", "conversions", "ctr",
              "cvr", "ad_cost", "ad_revenue", "payments_total", "payments_success",
              "payments_failed", "payment_success_rate", "pay_amount_success"}
        ELSE InsightColumns]

\* the keywords of BLOCK_PATTERNS; each pattern is \bkeyword\b
BLOCK_PATTERNS ==
    <<"insert", "update", "delete", "merge", "drop", "create", "alter", "truncate", "grant",
      "revoke", "copy", "export", "import", "attach", "detach", "pragma", "call", "execute">>

DISALLOW_JOIN == TRUE

DEFAULT_LIMIT == 1000

MAX_LIMIT == 5000

\* the two sets of tokens validate_sql never counts as columns
FunctionTokens ==
    {"sum", "avg", "min", "max", "count", "distinct", "case", "when", "then", "else", "end"}

KeywordTokens ==
    {"select", "from", "where", "between", "and", "or", "order", "by", "limit", "asc", "desc"}

\* the reasons of SQLGuardError, one per raise statement of the module
EmptyInput == "EmptyInput"

MultiStatement == "MultiStatement"

NotASelect == "NotASelect"

JoinNotAllowed == "JoinNotAllowed"

BlockedKeyword == "BlockedKeyword"

MissingSource == "MissingSource"

TableNotAllowed == "TableNotAllowed"

TooManyUnknownColumns == "TooManyUnknownColumns"

NoError == [reason |-> "", detail |-> <<>>]

SQLGuardError(reason, detail) == [reason |-> reason, detail |-> detail]

\* Python's None is the empty tuple, a value v that is not None is <<v>>
None == <<>>

\* the latest load_csv_for_date call when there has been none
NoLoad == [date_str |-> "", outcome |-> ""]

\* the latest save_outputs call when there has been none
NoCall == [date_str |-> "", md |-> "", ok |-> FALSE]

\* the arguments of the pipeline while it does not run
NoArgs == [date |-> "", anomaly |-> FALSE, skip_generate |-> FALSE, with_llm |-> FALSE]

Some(v) == <<v>>

-----------------------------------------------------------------------------
(* The functions of sql_guard.py *)

Fence == BackQuote \o BackQuote \o BackQuote

\* re.search of the pattern <fence>sql\s*(.*?)<fence> with IGNORECASE | DOTALL: group 1
\* of the leftmost match, or None
FenceSearch(text) ==
    LET n        == Len(text)
        Close(k) == MatchAt(text, Fence, k)
        body(i)  == RunEnd(text, SpaceChars, i + 6)
        close(i) == First(Close, body(i), n)
        Open(i)  == MatchAtCI(text, Fence \o "sql", i) /\ close(i) <= n
        i        == First(Open, 1, n)
    IN  IF i > n THEN None ELSE Some(SubSeq(text, body(i), close(i) - 1))

\* text.replace(<fence>, "")
RemoveFences(text) ==
    LET Starts(j) == MatchAt(text, Fence, j)
        End(j)    == j + Len(Fence)
    IN  Substitute(text, Starts, End, "", 1)

strip_sql_fence(text) ==
    IF text = "" THEN ""
    ELSE LET m == FenceSearch(text)
         IN  IF m # None THEN strip(m[1]) ELSE strip(RemoveFences(text))

normalize_sql(sql) == Lower(_collapse_ws(sql))

\* _has_multi_statement dropping every trailing separator (s.rstrip(";")) instead of one
_has_multi_statement_rstrip(sql) ==
    LET s    == strip(sql)
        Sep(i) == Char(s, i) # ";"
    IN  Contains(SubSeq(s, 1, Last(Sep, 1, Len(s))), ";")

_has_multi_statement(sql) ==
    LET s == strip(sql)
    IN  IF s = "" THEN FALSE
        ELSE IF endswith(s, ";") THEN Contains(SubSeq(s, 1, Len(s) - 1), ";")
        ELSE Contains(s, ";")

\* _strip_trailing_semicolon leaving the white space that stood before the separator
_strip_trailing_semicolon_no_rstrip(sql) ==
    LET s == strip(sql)
    IN  IF endswith(s, ";") THEN SubSeq(s, 1, Len(s) - 1) ELSE s

_strip_trailing_semicolon(sql) ==
    LET s == strip(sql)
    IN  IF endswith(s, ";") THEN rstrip(SubSeq(s, 1, Len(s) - 1)) ELSE s

\* re.search(r"\bfrom\s+([a-zA-Z0-9_.]+)", norm_sql): group 1 of the leftmost match, or
\* None where the source raises
_extract_table(norm_sql) ==
    LET n       == Len(norm_sql)
        arg(i)  == RunEnd(norm_sql, SpaceChars, i + 4)
        stop(i) == RunEnd(norm_sql, TableChars, arg(i))
        Hit(i)  == /\ MatchAt(norm_sql, "from", i)
                   /\ Boundary(norm_sql, i)
                   /\ arg(i) > i + 4
                   /\ stop(i) > arg(i)
        i       == First(Hit, 1, n)
    IN  IF i > n THEN None ELSE Some(SubSeq(norm_sql, arg(i), stop(i) - 1))

\* with the word limit at i, the rest of r"\blimit\s+\d+" matches there
LimitClauseAt(s, i) ==
    LET arg == RunEnd(s, SpaceChars, i + 5)
    IN  Boundary(s, i) /\ arg > i + 5 /\ RunEnd(s, DigitChars, arg) > arg

\* the index after the match of r"\blimit\s+\d+" that starts at i
LimitEnd(s, i) == RunEnd(s, DigitChars, RunEnd(s, SpaceChars, i + 5))

\* re.search(r"\blimit\s+(\d+)", norm_sql): int(group 1) of the leftmost match, or None
_extract_limit(norm_sql) ==
    LET n      == Len(norm_sql)
        Hit(i) == MatchAt(norm_sql, "limit", i) /\ LimitClauseAt(norm_sql, i)
        i      == First(Hit, 1, n)
    IN  IF i > n THEN None
        ELSE Some(int(SubSeq(norm_sql, RunEnd(norm_sql, SpaceChars, i + 5),
                             LimitEnd(norm_sql, i) - 1)))

\* re.sub(r"(?i)\blimit\s+\d+", repl, s)
SubLimit(s, repl) ==
    LET Starts(j) == MatchAtCI(s, "limit", j) /\ LimitClauseAt(s, j)
        End(j)    == LimitEnd(s, j)
    IN  Substitute(s, Starts, End, repl, 1)

_ensure_limit(raw_sql) ==
    LET n == normalize_sql(raw_sql)
    IN  IF Contains(n, " limit ")
        THEN LET lim == _extract_limit(n)
             IN  IF lim # None /\ lim[1] > MAX_LIMIT
                 THEN SubLimit(raw_sql, "LIMIT " \o ToString(MAX_LIMIT))
                 ELSE raw_sql
        ELSE rstrip(raw_sql) \o " LIMIT " \o ToString(DEFAULT_LIMIT)

\* the identifiers re.findall(r"[a-zA-Z_][a-zA-Z0-9_]*", p) returns from index i on
RECURSIVE FindIdentifiers(_, _)
FindIdentifiers(p, i) ==
    LET IdentStart(k) == Char(p, k) \in IdentStartChars
        j == First(IdentStart, i, Len(p))
        e == RunEnd(p, WordChars, j)
    IN  IF j > Len(p) THEN <<>> ELSE <<SubSeq(p, j, e - 1)>> \o FindIdentifiers(p, e)

\* re.sub(r"\bas\s+[a-zA-Z0-9_]+\b", "", p)
RemoveAliases(p) ==
    LET Name(j)   == RunEnd(p, SpaceChars, j + 2)
        End(j)    == RunEnd(p, WordChars, Name(j))
        Starts(j) == /\ MatchAt(p, "as", j)
                     /\ Boundary(p, j)
                     /\ Name(j) > j + 2
                     /\ End(j) > Name(j)
    IN  Substitute(p, Starts, End, "", 1)

\* str.split(",") from index i on
RECURSIVE SplitOnComma(_, _)
SplitOnComma(s, i) ==
    LET Comma(k) == Char(s, k) = ","
        j == First(Comma, i, Len(s))
    IN  IF j > Len(s) THEN <<SubSeq(s, i, Len(s))>>
        ELSE <<SubSeq(s, i, j - 1)>> \o SplitOnComma(s, j + 1)

\* the list with later repetitions of an element dropped
RECURSIVE Uniq(_, _)
Uniq(cols, seen) ==
    IF cols = <<>> THEN <<>>
    ELSE IF Head(cols) \in seen THEN Uniq(Tail(cols), seen)
    ELSE <<Head(cols)>> \o Uniq(Tail(cols), seen \cup {Head(cols)})

RECURSIVE Flatten(_)
Flatten(lists) == IF lists = <<>> THEN <<>> ELSE Head(lists) \o Flatten(Tail(lists))

\* re.search(r"\bselect\s+(.*?)\s+\bfrom\b", norm_sql): group 1 of the leftmost match, or
\* None.  After the word select the white space is taken greedily and given back one
\* character at a time; the group ends before the first white space that runs up to a
\* whole word from, and without re.DOTALL it holds no newline.
SelectSearch(norm_sql) ==
    LET n         == Len(norm_sql)
        Newline(k) == Char(norm_sql, k) = "\n"
        FromAfter(e) == LET f == RunEnd(norm_sql, SpaceChars, e)
                        IN  f > e /\ WordAt(norm_sql, "from", f)
        \* where the group that starts at p ends, or beyond n when it cannot end
        end(p)    == LET e == First(FromAfter, p, n)
                     IN  IF e <= n /\ First(Newline, p, e - 1) > e - 1 THEN e ELSE n + 1
        Ends(p)   == end(p) <= n
        \* the group start the match settles on for the word select at i
        start(i)  == Last(Ends, i + 7, RunEnd(norm_sql, SpaceChars, i + 6))
        Hit(i)    == /\ MatchAt(norm_sql, "select", i)
                     /\ Boundary(norm_sql, i)
                     /\ start(i) >= i + 7
        i         == First(Hit, 1, n)
    IN  IF i > n THEN None ELSE Some(SubSeq(norm_sql, start(i), end(start(i)) - 1))

\* what _extract_selected_columns makes of the projection select_part: None when it is
\* or opens with the wildcard, else the list of distinct identifier tokens of its
\* comma-separated pieces
ProjectionColumns(select_part) ==
    IF select_part = "*" \/ startswith(select_part, "* ") THEN None
    ELSE LET split == SplitOnComma(select_part, 1)
         IN  Some(Uniq(Flatten([k \in 1..Len(split) |->
                 FindIdentifiers(strip(RemoveAliases(strip(split[k]))), 1)]), {}))

\* None, or the list of distinct identifier tokens of the projection (m is the one
\* result of the search)
_extract_selected_columns(norm_sql) ==
    CHOOSE cols \in {IF m = None THEN None ELSE ProjectionColumns(strip(m[1])) :
                        m \in {SelectSearch(norm_sql)}} : TRUE

\* the characters of a token in code point order, which is the order sorted() compares by
CodeOrder == Digits \o UpperLetters \o "_" \o LowerLetters

Ord(c) == CHOOSE i \in 1..Len(CodeOrder) : Char(CodeOrder, i) = c

\* a < b for two str
RECURSIVE StrLess(_, _)
StrLess(a, b) ==
    IF b = "" THEN FALSE
    ELSE IF a = "" THEN TRUE
    ELSE IF Head(a) = Head(b) THEN StrLess(Tail(a), Tail(b))
    ELSE Ord(Head(a)) < Ord(Head(b))

\* sorted(S) for a set of str
RECURSIVE sorted(_)
sorted(S) ==
    IF S = {} THEN <<>>
    ELSE LET m == CHOOSE x \in S : \A y \in S : x = y \/ StrLess(x, y)
         IN  <<m>> \o sorted(S \ {m})

Range(f) == {f[k] : k \in DOMAIN f}

\* table.split(".")[-1]
LastDotPart(t) == LET Dot(i) == Char(t, i) = "." IN SubSeq(t, Last(Dot, 1, Len(t)) + 1, Len(t))

\* the list suspicious that validate_sql builds from the selected columns sel for the
\* table t
Suspicious(sel, t) ==
    IF sel = None THEN <<>>
    ELSE SelectSeq(sel[1], LAMBDA token :
             /\ token \notin FunctionTokens
             /\ token \notin KeywordTokens
             /\ token # LastDotPart(t)
             /\ token \notin ALLOWED_COLUMNS[t])

\* sorted(set(suspicious))[:10]
FirstTen(suspicious) ==
    LET names == sorted(Range(suspicious))
    IN  SubSeq(names, 1, IF Len(names) < 10 THEN Len(names) ELSE 10)

-----------------------------------------------------------------------------
(* The texts validate_sql is called with *)

\* how many pieces follow the statement of an input
MaxTail == 2

\* what a generator's answer opens with: nothing, a fence tagged sql, a bare fence
Openings == {"", Fence \o "sql\n", Fence \o "\n"}

\* the statement of an input
Statements ==
    {"",
     "SELECT 1",
     "SELECT * FROM mart.daily_campaign_kpi",
     "select event_date, ad_revenue from mart_daily_insight",
     "SELECT a, b AS x, c FROM mart.daily_campaign_kpi",
     "SELECT * FROM 'f.csv' WHERE 1 IN (SELECT 1 FROM mart_daily_insight)",
     "DELETE FROM mart_daily_insight"}

\* the pieces that may follow it
Pieces ==
    {";", "\n", "_x", ", mart_daily_insight", " JOIN x", " Drop", " -- comment", Fence}

\* the texts made of at most n of the pieces P
RECURSIVE Tails(_, _)
Tails(P, n) == IF n = 0 THEN {""} ELSE {""} \cup {p \o t : p \in P, t \in Tails(P, n - 1)}

Inputs == {o \o s \o t : o \in Openings, s \in Statements, t \in Tails(Pieces, MaxTail)}

\* how many pieces follow the statement of an input that is about the limit clause
MaxLimitTail == 2

LimitStatements ==
    {"SELECT * FROM mart.daily_campaign_kpi",
     "select event_date, ad_revenue from mart_daily_insight"}

LimitPieces ==
    {" LIMIT 9", " limit 50009", "\nLimit 5000", " limit x", ",limit 5001", ";", " Drop"}

LimitInputs == {s \o t : s \in LimitStatements, t \in Tails(LimitPieces, MaxLimitTail)}

\* how many pieces follow the statement of an input of a caller that calls twice
MaxTwiceTail == 2

TwiceStatements ==
    {"",
     "SELECT * FROM mart.daily_campaign_kpi",
     "select event_date, ad_revenue from mart_daily_insight"}

TwicePieces ==
    {" LIMIT 9", " limit 50009", ",limit 5001", ";", "\n", Fence}

TwiceInputs ==
    {o \o s \o t : o \in Openings, s \in TwiceStatements, t \in Tails(TwicePieces, MaxTwiceTail)}

\* how many items the projection of an input that is about the column stage lists
MaxColumns == 3

\* the items of a projection: an allowed column, unknown columns (one of them twice, in
\* two spellings), a function call on a qualified column with an alias, a call with eleven
\* unknown names, the wildcard alone and followed by a space, a parenthesised column
ColumnItems ==
    {"event_date", "a", "A", "SUM(daily_campaign_kpi.b) AS x",
     "f(g, h, i, j, k, l, m, n, o, p)", "*", "* ", "(d)"}

\* the projections of at most n items
RECURSIVE Projections(_)
Projections(n) ==
    IF n = 1 THEN ColumnItems
    ELSE ColumnItems \cup {p \o ", " \o i : p \in Projections(n - 1), i \in ColumnItems}

\* the source clause, written after white space or right after the projection
ColumnSources == {" FROM mart.daily_campaign_kpi", "FROM mart.daily_campaign_kpi"}

ColumnInputs == {"SELECT " \o p \o f : p \in Projections(MaxColumns), f \in ColumnSources}

-----------------------------------------------------------------------------
(* validate_sql, one action per step of its body *)

Init ==
    /\ pc = "idle"
    /\ sql_or_text = ""
    /\ raw = ""
    /\ norm = ""
    /\ table = ""
    /\ selected = None
    /\ result = ""
    /\ error = NoError
    /\ earlier = None
    /\ app = "idle"
    /\ executed = None
    /\ args = NoArgs
    /\ stage = "idle"
    /\ trace = <<>>
    /\ mart_daily_insight = None
    /\ reports = <<>>
    /\ saved = NoCall
    /\ csv = <<>>
    /\ raw_ad_events = <<>>
    /\ raw_payment_events = <<>>
    /\ loaded = NoLoad

\* a caller calls validate_sql(text)
Call(text) ==
    /\ pc = "idle"
    /\ pc' = "check_empty"
    /\ sql_or_text' = text
    /\ UNCHANGED <<raw, norm, table, selected, result, error, callerVars, batchVars>>

\* the caller has taken what the call returned or raised; the call's locals are gone
Return ==
    /\ pc \in {"returned", "raised"}
    /\ pc' = "idle"
    /\ sql_or_text' = ""
    /\ raw' = ""
    /\ norm' = ""
    /\ table' = ""
    /\ selected' = None
    /\ result' = ""
    /\ error' = NoError
    /\ earlier' = None
    /\ UNCHANGED <<app, executed, batchVars>>

\* raise SQLGuardError: the call ends and returns nothing
Raise(reason, detail) ==
    /\ pc' = "raised"
    /\ error' = SQLGuardError(reason, detail)
    /\ UNCHANGED <<sql_or_text, raw, norm, table, selected, result, callerVars, batchVars>>

Goto(next) ==
    /\ pc' = next
    /\ UNCHANGED <<sql_or_text, raw, norm, table, selected, result, error, callerVars, batchVars>>

CheckEmpty ==
    /\ pc = "check_empty"
    /\ IF sql_or_text = "" \/ strip(sql_or_text) = ""
       THEN Raise(EmptyInput, <<>>)
       ELSE Goto("strip_fence")

StripFence ==
    /\ pc = "strip_fence"
    /\ raw' = strip(strip_sql_fence(sql_or_text))
    /\ pc' = "check_multi"
    /\ UNCHANGED <<sql_or_text, norm, table, selected, result, error, callerVars, batchVars>>

CheckMulti ==
    /\ pc = "check_multi"
    /\ IF _has_multi_statement(raw)
       THEN Raise(MultiStatement, <<>>)
       ELSE Goto("strip_semicolon")

StripSemicolon ==
    /\ pc = "strip_semicolon"
    /\ raw' = _strip_trailing_semicolon(raw)
    /\ pc' = "normalize"
    /\ UNCHANGED <<sql_or_text, norm, table, selected, result, error, callerVars, batchVars>>

Normalize ==
    /\ pc = "normalize"
    /\ norm' = normalize_sql(raw)
    /\ pc' = "check_select"
    /\ UNCHANGED <<sql_or_text, raw, table, selected, result, error, callerVars, batchVars>>

\* CheckSelect letting every text through
CheckSelectSkipped ==
    /\ pc = "check_select"
    /\ Goto("check_join")

CheckSelect ==
    /\ pc = "check_select"
    /\ IF ~startswith(norm, "select ")
       THEN Raise(NotASelect, <<>>)
       ELSE Goto("check_join")

\* CheckJoin searching raw, which is not case-folded, instead of norm
CheckJoinCaseSensitive ==
    /\ pc = "check_join"
    /\ IF DISALLOW_JOIN /\ HasWord(raw, "join")
       THEN Raise(JoinNotAllowed, <<>>)
       ELSE Goto("check_blocked")

CheckJoin ==
    /\ pc = "check_join"
    /\ IF DISALLOW_JOIN /\ HasWord(norm, "join")
       THEN Raise(JoinNotAllowed, <<>>)
       ELSE Goto("check_blocked")

\* CheckBlocked searching raw, which is not case-folded, instead of norm
CheckBlockedCaseSensitive ==
    /\ pc = "check_blocked"
    /\ IF \E k \in DOMAIN BLOCK_PATTERNS : HasWord(raw, BLOCK_PATTERNS[k])
       THEN Raise(BlockedKeyword, <<>>)
       ELSE Goto("extract_table")

CheckBlocked ==
    /\ pc = "check_blocked"
    /\ IF \E k \in DOMAIN BLOCK_PATTERNS : HasWord(norm, BLOCK_PATTERNS[k])
       THEN Raise(BlockedKeyword, <<>>)
       ELSE Goto("extract_table")

ExtractTable ==
    /\ pc = "extract_table"
    /\ LET m == _extract_table(norm)
       IN  IF m = None
           THEN Raise(MissingSource, <<>>)
           ELSE /\ table' = m[1]
                /\ pc' = "check_table"
                /\ UNCHANGED <<sql_or_text, raw, norm, selected, result, error, callerVars, batchVars>>

CheckTable ==
    /\ pc = "check_table"
    /\ IF table \notin ALLOWED_TABLES
       THEN Raise(TableNotAllowed, <<table>>)
       ELSE Goto("extract_columns")

ExtractColumns ==
    /\ pc = "extract_columns"
    /\ selected' = IF table \in DOMAIN ALLOWED_COLUMNS
                   THEN _extract_selected_columns(norm)
                   ELSE None
    /\ pc' = "check_columns"
    /\ UNCHANGED <<sql_or_text, raw, norm, table, result, error, callerVars, batchVars>>

CheckColumns ==
    /\ pc = "check_columns"
    /\ IF Len(Suspicious(selected, table)) >= 3
       THEN Raise(TooManyUnknownColumns, FirstTen(Suspicious(selected, table)))
       ELSE Goto("ensure_limit")

\* EnsureLimit working on norm, the case-folded copy, instead of raw
EnsureLimitOfNorm ==
    /\ pc = "ensure_limit"
    /\ result' = _ensure_limit(norm)
    /\ pc' = "returned"
    /\ UNCHANGED <<sql_or_text, raw, norm, table, selected, error, callerVars, batchVars>>

EnsureLimit ==
    /\ pc = "ensure_limit"
    /\ result' = _ensure_limit(raw)
    /\ pc' = "returned"
    /\ UNCHANGED <<sql_or_text, raw, norm, table, selected, error, callerVars, batchVars>>

\* the steps of the body of validate_sql
Body ==
    \/ CheckEmpty
    \/ StripFence
    \/ CheckMulti
    \/ StripSemicolon
    \/ Normalize
    \/ CheckSelect
    \/ CheckJoin
    \/ CheckBlocked
    \/ ExtractTable
    \/ CheckTable
    \/ ExtractColumns
    \/ CheckColumns
    \/ EnsureLimit

\* the steps of a call that is under way
Step ==
    \/ Body
    \/ Return

Next ==
    \/ pc = "idle" /\ \E text \in Inputs : Call(text)
    \/ Step

Spec == Init /\ [][Next]_vars

\* the calls whose texts are about the limit clause
NextLimit ==
    \/ pc = "idle" /\ \E text \in LimitInputs : Call(text)
    \/ Step

SpecLimit == Init /\ [][NextLimit]_vars

\* the calls whose texts are about the column stage
NextColumns ==
    \/ pc = "idle" /\ \E text \in ColumnInputs : Call(text)
    \/ Step

SpecColumns == Init /\ [][NextColumns]_vars

-----------------------------------------------------------------------------
(* A caller that calls validate_sql a second time *)

\* the call has ended: it returned (accepted) or raised (rejected)
Ended == pc \in {"returned", "raised"}

\* the caller keeps how its first call ended and calls validate_sql(text)
CallAgain(how, text) ==
    /\ earlier = None
    /\ earlier' = Some([how |-> how, text |-> sql_or_text, accepted |-> pc = "returned",
                        result |-> result, error |-> error])
    /\ pc' = "check_empty"
    /\ sql_or_text' = text
    /\ raw' = ""
    /\ norm' = ""
    /\ table' = ""
    /\ selected' = None
    /\ result' = ""
    /\ error' = NoError
    /\ UNCHANGED <<app, executed, batchVars>>

\* validate_sql(validate_sql(x)): the returned string is validated again
Revalidate ==
    /\ pc = "returned"
    /\ CallAgain("again", result)

\* a single trailing separator, with white space around it
Separators == {";", " ;", ";\n", " ; "}

\* the text of an accepted call that holds no separator is validated again with one added
ResubmitWithSeparator ==
    /\ pc = "returned"
    /\ ~Contains(sql_or_text, ";")
    /\ \E sep \in Separators : CallAgain("separator", sql_or_text \o sep)

\* a block tagged sql opens at i of text: the fence and the tag, in any case, with a
\* closing fence somewhere behind them
TaggedBlockAt(text, i) ==
    /\ MatchAtCI(text, Fence \o "sql", i)
    /\ \E c \in (i + 6)..Len(text) : MatchAt(text, Fence, c)

\* what a caller takes out of a fenced text by hand: the trimmed interior of the first
\* block tagged sql or, without such a block, the text with its fence marks removed, trimmed
Interior(text) ==
    IF \E i \in 1..Len(text) : TaggedBlockAt(text, i)
    THEN LET i == CHOOSE k \in 1..Len(text) :
                      TaggedBlockAt(text, k) /\ \A j \in 1..(k - 1) : ~TaggedBlockAt(text, j)
             c == CHOOSE k \in (i + 6)..Len(text) :
                      MatchAt(text, Fence, k) /\ \A j \in (i + 6)..(k - 1) : ~MatchAt(text, Fence, j)
         IN  strip(SubSeq(text, i + 6, c - 1))
    ELSE strip(RemoveFences(text))

\* a text with fence marks was validated; its interior alone is validated next
ResubmitInterior ==
    /\ Ended
    /\ Contains(sql_or_text, Fence)
    /\ CallAgain("interior", Interior(sql_or_text))

NextTwice ==
    \/ pc = "idle" /\ \E text \in TwiceInputs : Call(text)
    \/ Step
    \/ Revalidate
    \/ ResubmitWithSeparator
    \/ ResubmitInterior

SpecTwice == Init /\ [][NextTwice]_vars

-----------------------------------------------------------------------------
(* The Ask AI page (streamlit_app/app.py) and the generator it asks (llm/text2sql.py) *)

\* str.replace(<fence>sql, ""), which matches the tag as written
RemoveTaggedFences(text) ==
    LET Starts(j) == MatchAt(text, Fence \o "sql", j)
        End(j)    == j + Len(Fence) + 3
    IN  Substitute(text, Starts, End, "", 1)

\* generate_sql: what it makes of the content of the model's answer
generate_sql(content) == strip(RemoveFences(RemoveTaggedFences(strip(content))))

extract_sql(text) ==
    IF text = "" THEN ""
    ELSE LET m == FenceSearch(text)
         IN  IF m # None THEN strip(m[1]) ELSE strip(RemoveFences(text))

\* the user runs a question: the generator answers, the page extracts the statement
\* from the answer and calls validate_sql with it
Run(content) ==
    /\ app = "idle"
    /\ pc = "idle"
    /\ app' = "validating"
    /\ pc' = "check_empty"
    /\ sql_or_text' = extract_sql(generate_sql(content))
    /\ UNCHANGED <<raw, norm, table, selected, result, error, earlier, executed, batchVars>>

\* get_con or generate_sql raises (no database file, no API key): the page shows the
\* error and validates nothing
RunFails ==
    /\ app = "idle"
    /\ pc = "idle"
    /\ app' = "error_shown"
    /\ UNCHANGED <<pc, sql_or_text, raw, norm, table, selected, result, error, earlier, executed, batchVars>>

\* Execute giving the engine the extracted statement instead of the validated one
ExecuteUnvalidated ==
    /\ app = "validating"
    /\ pc = "returned"
    /\ executed' = Some(sql_or_text)
    /\ app' \in {"result_shown", "error_shown"}
    /\ UNCHANGED <<pc, sql_or_text, raw, norm, table, selected, result, error, earlier, batchVars>>

\* validate_sql returned safe_sql: the page gives it to the engine, which answers with a
\* result or raises
Execute ==
    /\ app = "validating"
    /\ pc = "returned"
    /\ executed' = Some(result)
    /\ app' \in {"result_shown", "error_shown"}
    /\ UNCHANGED <<pc, sql_or_text, raw, norm, table, selected, result, error, earlier, batchVars>>

\* validate_sql raised SQLGuardError: the page shows the message
ShowGuardError ==
    /\ app = "validating"
    /\ pc = "raised"
    /\ app' = "error_shown"
    /\ UNCHANGED <<pc, sql_or_text, raw, norm, table, selected, result, error, earlier, executed, batchVars>>

\* the run of the page's script is over; the next one starts afresh
RunEnds ==
    /\ app \in {"result_shown", "error_shown"}
    /\ app' = "idle"
    /\ executed' = None
    /\ pc' = "idle"
    /\ sql_or_text' = ""
    /\ raw' = ""
    /\ norm' = ""
    /\ table' = ""
    /\ selected' = None
    /\ result' = ""
    /\ error' = NoError
    /\ UNCHANGED <<earlier, batchVars>>

NextApp ==
    \/ \E content \in Inputs : Run(content)
    \/ RunFails
    \/ Body
    \/ Execute
    \/ ShowGuardError
    \/ RunEnds

SpecApp == Init /\ [][NextApp]_vars

-----------------------------------------------------------------------------
(* The daily pipeline (scripts/run_daily_pipeline.py) *)

\* the state of validate_sql
guardVars == <<pc, sql_or_text, raw, norm, table, selected, result, error>>

\* the state of the pipeline's run
pipelineVars == <<args, stage, trace>>

\* the insight files and table
insightVars == <<mart_daily_insight, reports, saved>>

\* the raw files and tables
rawVars == <<csv, raw_ad_events, raw_payment_events, loaded>>

\* the files and tables the batch scripts write
storeVars == <<insightVars, rawVars>>

\* the dates a run is asked for (--date, YYYY-MM-DD)
Dates == {"2026-02-17", "2026-02-18", "2026-02-19"}

\* what parse_args can return: --date, --anomaly, --skip-generate, --with-llm
Arguments ==
    [date : Dates, anomaly : BOOLEAN, skip_generate : BOOLEAN, with_llm : BOOLEAN]

\* the script or function a stage runs
GenerateStage == "scripts/generate_realistic_data.py"

LoadStage == "scripts/build_duckdb.py"

DqStage == "run_dq"

InsightStage == "llm.insight_generator"

\* the command line sh is given for the generator
GenerateCommand(a) ==
    <<GenerateStage, "--date", a.date>> \o (IF a.anomaly THEN <<"--anomaly">> ELSE <<>>)

\* sh and a raising call alike, carried on as if the stage had not failed
carry_on(ok, next) == next

\* where main is after a stage has ended: subprocess.check_call raises on a non-zero
\* exit status, run_dq raises by itself, nothing catches, and main is over
check_call(ok, next) == IF ok THEN next ELSE "aborted"

\* main up to the first stage: the arguments are parsed, the directories made sure of
StartPipeline(a) ==
    /\ stage = "idle"
    /\ args' = a
    /\ trace' = <<>>
    /\ stage' = "generate"
    /\ UNCHANGED <<guardVars, callerVars, storeVars>>

\* CSV generation, unless --skip-generate
Generate ==
    /\ stage = "generate"
    /\ IF ~args.skip_generate
       THEN \E ok \in BOOLEAN :
                /\ trace' = Append(trace, [cmd |-> GenerateCommand(args), ok |-> ok])
                /\ stage' = check_call(ok, "load")
       ELSE /\ stage' = "load"
            /\ UNCHANGED trace
    /\ UNCHANGED <<args, guardVars, callerVars, storeVars>>

\* DuckDB load and rebuild of the mart
Load ==
    /\ stage = "load"
    /\ \E ok \in BOOLEAN :
           /\ trace' = Append(trace, [cmd |-> <<LoadStage, "--date", args.date, "--init",
                                                 "--rebuild-mart">>, ok |-> ok])
           /\ stage' = check_call(ok, "dq")
    /\ UNCHANGED <<args, guardVars, callerVars, storeVars>>

\* the data quality report
Dq ==
    /\ stage = "dq"
    /\ \E ok \in BOOLEAN :
           /\ trace' = Append(trace, [cmd |-> <<DqStage, args.date>>, ok |-> ok])
           /\ stage' = check_call(ok, "llm")
    /\ UNCHANGED <<args, guardVars, callerVars, storeVars>>

\* the insight of the language model, only with --with-llm
Insight ==
    /\ stage = "llm"
    /\ IF args.with_llm
       THEN \E ok \in BOOLEAN :
                /\ trace' = Append(trace, [cmd |-> <<InsightStage, "--date", args.date>>,
                                           ok |-> ok])
                /\ stage' = check_call(ok, "done")
       ELSE /\ stage' = "done"
            /\ UNCHANGED trace
    /\ UNCHANGED <<args, guardVars, callerVars, storeVars>>

\* the process of the pipeline exits
EndPipeline ==
    /\ stage \in {"done", "aborted"}
    /\ stage' = "idle"
    /\ args' = NoArgs
    /\ trace' = <<>>
    /\ UNCHANGED <<guardVars, callerVars, storeVars>>

NextPipeline ==
    \/ \E a \in Arguments : StartPipeline(a)
    \/ Generate
    \/ Load
    \/ Dq
    \/ Insight
    \/ EndPipeline

SpecPipeline == Init /\ [][NextPipeline]_vars

-----------------------------------------------------------------------------
(* The insight store (llm/insight_generator.py) *)

\* date_str.replace("-", "")
yyyymmdd(date_str) ==
    LET Starts(j) == MatchAt(date_str, "-", j)
        End(j)    == j + 1
    IN  Substitute(date_str, Starts, End, "", 1)

\* the answers of the language model that main saves (it raises on a blank one)
Markdowns == {"# ok", "# anomaly", "# ok\n- more"}

\* CREATE TABLE IF NOT EXISTS mart_daily_insight
ensure_insight_table(t) == IF t = None THEN Some(<<>>) ELSE t

\* save_outputs without its DELETE
KeepInsight(t, date_str) == t

\* DELETE FROM mart_daily_insight WHERE event_date = ?
DeleteInsight(t, date_str) == Some(SelectSeq(t[1], LAMBDA r : r.event_date # date_str))

\* INSERT INTO mart_daily_insight ... VALUES (?, ?, ?, ?, NOW()); the headline and the
\* risk level of a row are functions of md, and the row is modelled by its date and md
InsertInsight(t, date_str, md) == Some(Append(t[1], [event_date |-> date_str, summary_md |-> md]))

\* save_outputs(con, date_str, md): the report file is written, the table made sure of,
\* the rows of the date deleted and the new row inserted, each statement committed by
\* itself; the call raises when the insert fails
SaveOutputs(date_str, md) ==
    /\ reports' = [n \in DOMAIN reports \cup {"insight_" \o yyyymmdd(date_str) \o ".md"} |->
                      IF n = "insight_" \o yyyymmdd(date_str) \o ".md" THEN md ELSE reports[n]]
    /\ \E ok \in BOOLEAN :
           /\ mart_daily_insight' =
                  IF ok
                  THEN InsertInsight(DeleteInsight(ensure_insight_table(mart_daily_insight),
                                                   date_str), date_str, md)
                  ELSE DeleteInsight(ensure_insight_table(mart_daily_insight), date_str)
           /\ saved' = [date_str |-> date_str, md |-> md, ok |-> ok]
    /\ UNCHANGED <<guardVars, callerVars, pipelineVars, rawVars>>

NextInsight == \E date_str \in Dates, md \in Markdowns : SaveOutputs(date_str, md)

SpecInsight == Init /\ [][NextInsight]_vars

-----------------------------------------------------------------------------
(* The raw load (scripts/generate_realistic_data.py, scripts/build_duckdb.py) *)

\* the dates that are generated and loaded
LoadDates == {"2026-02-18", "2026-02-19"}

\* date_str.replace("-", "")
to_yyyymmdd(date_str) ==
    LET Starts(j) == MatchAt(date_str, "-", j)
        End(j)    == j + 1
    IN  Substitute(date_str, Starts, End, "", 1)

AdCsv(date_str) == "ad_events_" \o to_yyyymmdd(date_str) \o ".csv"

PayCsv(date_str) == "payment_events_" \o to_yyyymmdd(date_str) \o ".csv"

\* the rows the generator writes: every row carries the date it was asked for; with
\* --anomaly the revenue of the conversions drops and the payments fail more often
AdRows(date_str, anomaly) ==
    <<[event_date |-> date_str, event_type |-> "click", revenue |-> "none"],
      [event_date |-> date_str, event_type |-> "conversion",
       revenue |-> IF anomaly THEN "low" ELSE "usual"]>>

PayRows(date_str, anomaly) ==
    <<[event_date |-> date_str, order_id |-> "O" \o to_yyyymmdd(date_str) \o "000000",
       status |-> IF anomaly THEN "failed" ELSE "success"]>>

\* path.write: the file named name holds rows from now on
Written(files, name, rows) ==
    [n \in DOMAIN files \cup {name} |-> IF n = name THEN rows ELSE files[n]]

\* generate_realistic_data.py: the file of the ad events is written, then the file of the
\* payment events; the script may end between the two
GenerateCsv(date_str, anomaly) ==
    /\ \E complete \in BOOLEAN :
           csv' = IF complete
                  THEN Written(Written(csv, AdCsv(date_str), AdRows(date_str, anomaly)),
                               PayCsv(date_str), PayRows(date_str, anomaly))
                  ELSE Written(csv, AdCsv(date_str), AdRows(date_str, anomaly))
    /\ UNCHANGED <<raw_ad_events, raw_payment_events, loaded>>
    /\ UNCHANGED <<guardVars, callerVars, pipelineVars, insightVars>>

\* the existence test of load_csv_for_date looking at the file of the ad events only
AdCsvMissing(files, date_str) == AdCsv(date_str) \notin DOMAIN files

\* not ad_csv.exists() or not pay_csv.exists()
CsvMissing(files, date_str) ==
    AdCsv(date_str) \notin DOMAIN files \/ PayCsv(date_str) \notin DOMAIN files

\* DELETE FROM <table> WHERE event_date = ?
DeleteDate(rows, date_str) == SelectSeq(rows, LAMBDA r : r.event_date # date_str)

\* load_csv_for_date(con, date_str): FileNotFoundError when a file is missing; else the
\* rows of the date are deleted from both tables and the rows of the two files inserted,
\* each statement committed by itself; read_csv_auto raises on a file that is not there
LoadCsvForDate(date_str) ==
    /\ IF CsvMissing(csv, date_str)
       THEN /\ loaded' = [date_str |-> date_str, outcome |-> "FileNotFoundError"]
            /\ UNCHANGED <<raw_ad_events, raw_payment_events>>
       ELSE IF AdCsv(date_str) \notin DOMAIN csv
       THEN /\ loaded' = [date_str |-> date_str, outcome |-> "IOException"]
            /\ raw_ad_events' = DeleteDate(raw_ad_events, date_str)
            /\ raw_payment_events' = DeleteDate(raw_payment_events, date_str)
       ELSE IF PayCsv(date_str) \notin DOMAIN csv
       THEN /\ loaded' = [date_str |-> date_str, outcome |-> "IOException"]
            /\ raw_ad_events' = DeleteDate(raw_ad_events, date_str) \o csv[AdCsv(date_str)]
            /\ raw_payment_events' = DeleteDate(raw_payment_events, date_str)
       ELSE /\ loaded' = [date_str |-> date_str, outcome |-> "ok"]
            /\ raw_ad_events' = DeleteDate(raw_ad_events, date_str) \o csv[AdCsv(date_str)]
            /\ raw_payment_events' =
                   DeleteDate(raw_payment_events, date_str) \o csv[PayCsv(date_str)]
    /\ UNCHANGED csv
    /\ UNCHANGED <<guardVars, callerVars, pipelineVars, insightVars>>

NextLoad ==
    \/ \E date_str \in LoadDates, anomaly \in BOOLEAN : GenerateCsv(date_str, anomaly)
    \/ \E date_str \in LoadDates : LoadCsvForDate(date_str)

SpecLoad == Init /\ [][NextLoad]_vars

-----------------------------------------------------------------------------
(* Properties of validate_sql *)

Accepted == pc = "returned"

Rejected(reason) == pc = "raised" /\ error.reason = reason

\* the table token that follows the first whole-word from of the case-folded text n;
\* None when n has no such word or when no white space and token follow it
TokenAfterFirstFrom(n) ==
    LET From(k) == WordAt(n, "from", k)
        i == First(From, 1, Len(n))
        j == RunEnd(n, SpaceChars, i + 4)
        e == RunEnd(n, TableChars, j)
    IN  IF i > Len(n) \/ j = i + 4 \/ e = j THEN None ELSE Some(SubSeq(n, j, e - 1))

\* C1: every accepted output has, after the first whole-word from of its case-folded
\* text, a table token that is in ALLOWED_TABLES; and a call that passes the stages before
\* the table check with such a token outside ALLOWED_TABLES is rejected with
\* TableNotAllowed carrying that token.
C1_TableAllowlistTotality ==
    LET t == TokenAfterFirstFrom(norm)
    IN  /\ Accepted => t # None /\ t[1] \in ALLOWED_TABLES
        /\ ( /\ Ended
             /\ error.reason \notin {EmptyInput, MultiStatement, NotASelect,
                                     JoinNotAllowed, BlockedKeyword}
             /\ t # None
             /\ t[1] \notin ALLOWED_TABLES )
           => pc = "raised" /\ error = SQLGuardError(TableNotAllowed, <<t[1]>>)

\* the from clause of the case-folded text n names a table and, after a comma, goes on
ListsSecondTable(n) ==
    \E i \in 1..Len(n) :
        /\ WordAt(n, "from", i)
        /\ LET j == RunEnd(n, SpaceChars, i + 4)
               e == RunEnd(n, TableChars, j)
               c == RunEnd(n, SpaceChars, e)
           IN  j > i + 4 /\ e > j /\ c <= Len(n) /\ Char(n, c) = ","

\* C2: no accepted output has a from clause that lists a second table after a comma.
C2_ExactlyOneTable == Accepted => ~ListsSecondTable(norm)

\* the text of an input that is a text in wrapping: white space around it, and either a
\* closed fence tagged sql around it or bare fence marks at its ends
Unwrap(text) ==
    LET a == strip(text)
    IN  IF MatchAt(a, Fence, 1) /\ MatchAtCI(a, "sql", 4)
        THEN IF Len(a) >= 9 /\ endswith(a, Fence) THEN strip(SubSeq(a, 7, Len(a) - 3)) ELSE a
        ELSE LET b == IF startswith(a, Fence) THEN SubSeq(a, 4, Len(a)) ELSE a
                 c == IF endswith(b, Fence) THEN SubSeq(b, 1, Len(b) - 3) ELSE b
             IN  strip(c)

\* the text the current call is about
Text == Unwrap(sql_or_text)

\* the input is a text in wrapping: the text itself holds no fence mark
Wrapped == ~Contains(Text, Fence)

\* t, which is stripped, has a separator elsewhere than at its very end
NonTrailingSeparator(t) == \E i \in 1..(Len(t) - 1) : Char(t, i) = ";"

\* C3: a call whose text, inside white space and fence wrapping, has a separator anywhere
\* but as its single last non-white character is rejected with MultiStatement.
C3_MultiStatementClosure ==
    (Ended /\ Wrapped /\ NonTrailingSeparator(Text)) => Rejected(MultiStatement)

\* a rejected call whose text has two trailing separators and came inside a fence
C3_Witness ==
    /\ Rejected(MultiStatement)
    /\ Wrapped
    /\ NonTrailingSeparator(Text)
    /\ endswith(Text, ";;")
    /\ startswith(sql_or_text, Fence)

\* the keywords the claim lists
BlockedWords ==
    {"insert", "update", "delete", "merge", "drop", "create", "alter", "truncate", "grant",
     "revoke", "copy", "export", "import", "attach", "detach", "pragma", "call", "execute"}

\* C4: no accepted output, which is the text after the limit stage, contains one of the
\* blocked keywords as a whole word in any letter case.
C4_NoBlockedKeyword ==
    Accepted => \A w \in BlockedWords : ~HasWord(Lower(result), w)

\* an accepted output that the limit stage has rewritten and that holds the letters of a
\* blocked keyword inside a longer word
C4_Witness ==
    /\ Accepted
    /\ result # raw
    /\ Contains(Lower(result), "drop")

\* t begins with the word select, in any letter case, and white space
BeginsWithSelect(t) == MatchAtCI(t, "select", 1) /\ Len(t) > 6 /\ IsSpace(Char(t, 7))

\* C5: with DISALLOW_JOIN set, a call whose text is not empty, is a single statement,
\* begins with select and holds the whole word join in any letter case is rejected with
\* JoinNotAllowed; and no accepted output holds a whole-word join.
C5_JoinRejected ==
    DISALLOW_JOIN =>
        /\ ( /\ Ended
             /\ Wrapped
             /\ Text # ""
             /\ ~NonTrailingSeparator(Text)
             /\ BeginsWithSelect(Text)
             /\ HasWord(Lower(Text), "join") )
           => Rejected(JoinNotAllowed)
        /\ Accepted => ~HasWord(Lower(result), "join")

\* a rejected call whose text begins with select and holds the word in upper case
C5_Witness ==
    /\ Rejected(JoinNotAllowed)
    /\ Wrapped
    /\ BeginsWithSelect(Text)
    /\ HasWord(Text, "JOIN")

\* the integer values of the limit clauses (the word limit, white space, digits) of t
LimitValues(t) ==
    LET n == Lower(t)
    IN  {int(SubSeq(n, RunEnd(n, SpaceChars, i + 5), LimitEnd(n, i) - 1)) :
            i \in {k \in 1..Len(n) : MatchAt(n, "limit", k) /\ LimitClauseAt(n, k)}}

\* C6: every accepted output holds a limit clause with an integer value, and every limit
\* value in it is at most MAX_LIMIT.
C6_LimitBound ==
    Accepted => /\ LimitValues(result) # {}
                /\ \A v \in LimitValues(result) : v <= MAX_LIMIT

\* C7: a call whose input holds the line-comment marker is rejected.
C7_CommentRejected == (Ended /\ Contains(sql_or_text, "--")) => pc = "raised"

\* the first word of t, case-folded, is one of the blocked keywords
BeginsWithBlockedVerb(t) ==
    LET n == Lower(t)
    IN  SubSeq(n, 1, RunEnd(n, WordChars, 1) - 1) \in BlockedWords

\* the call is about a single statement that begins with a blocked verb
BlockedVerbStatement ==
    /\ Ended
    /\ Wrapped
    /\ ~NonTrailingSeparator(Text)
    /\ BeginsWithBlockedVerb(Text)

\* C8 as stated: a single statement that begins with a blocked verb is rejected with
\* BlockedKeyword, before the table allowlist is evaluated (the local table is never set).
C8_Original == BlockedVerbStatement => Rejected(BlockedKeyword) /\ table = ""

\* C8: a single statement that begins with a blocked verb is rejected with NotASelect,
\* before the table allowlist is evaluated (the local table is never set).
C8_BlockedVerbNotASelect == BlockedVerbStatement => Rejected(NotASelect) /\ table = ""

\* a rejected DELETE FROM statement
C8_Witness ==
    /\ BlockedVerbStatement
    /\ Rejected(NotASelect)
    /\ startswith(Lower(Text), "delete from ")

\* the reason of the earliest check, in the order of the claim, that the text t violates;
\* "" when it violates none
EarliestViolated(t) ==
    LET n == normalize_sql(t)
    IN  IF t = "" THEN EmptyInput
        ELSE IF NonTrailingSeparator(t) THEN MultiStatement
        ELSE IF ~BeginsWithSelect(_strip_trailing_semicolon(t)) THEN NotASelect
        ELSE IF HasWord(n, "join") THEN JoinNotAllowed
        ELSE IF \E w \in BlockedWords : HasWord(n, w) THEN BlockedKeyword
        ELSE IF _extract_table(n) = None THEN MissingSource
        ELSE IF _extract_table(n)[1] \notin ALLOWED_TABLES THEN TableNotAllowed
        ELSE IF Len(Suspicious(_extract_selected_columns(n), _extract_table(n)[1])) >= 3
             THEN TooManyUnknownColumns
        ELSE ""

\* C9: a call is rejected with the reason of the earliest check its text violates, in the
\* order EmptyInput, MultiStatement, NotASelect, JoinNotAllowed, BlockedKeyword,
\* MissingSource, TableNotAllowed, TooManyUnknownColumns, and accepted when it violates
\* none; the eight reasons differ; a rejected call returns nothing, limit or other.
C9_StagePrecedence ==
    /\ Cardinality({EmptyInput, MultiStatement, NotASelect, JoinNotAllowed, BlockedKeyword,
                    MissingSource, TableNotAllowed, TooManyUnknownColumns}) = 8
    /\ (Ended /\ Wrapped) =>
           IF EarliestViolated(Text) = "" THEN Accepted
           ELSE Rejected(EarliestViolated(Text))
    /\ pc = "raised" => result = ""

\* C10: a call whose text is empty after fence stripping and trimming is rejected with
\* EmptyInput.
C10_EmptyAfterFence ==
    (Ended /\ strip(strip_sql_fence(sql_or_text)) = "") => Rejected(EmptyInput)

-----------------------------------------------------------------------------
(* Properties of a second call *)

\* the second call of a caller that made its first call in the way how has ended
SecondEnded(how) == Ended /\ earlier # None /\ earlier[1].how = how

\* C11: validating a string that validate_sql returned is accepted and returns that
\* same string: validate_sql(validate_sql(x)) = validate_sql(x).
C11_Idempotent ==
    SecondEnded("again") => (Accepted /\ result = earlier[1].result)

\* C13: when a text without separator is accepted, the same text followed by a single
\* separator (with white space around it) is accepted with the same output; and no
\* accepted output holds a separator.
C13_TrailingSeparator ==
    /\ SecondEnded("separator") => (Accepted /\ result = earlier[1].result)
    /\ Accepted => ~Contains(result, ";")

\* a text ending with white space and a separator was accepted like the text without them
C13_Witness ==
    /\ SecondEnded("separator")
    /\ endswith(sql_or_text, " ;")
    /\ Accepted
    /\ result = earlier[1].result

-----------------------------------------------------------------------------
(* Properties of the returned string *)

\* where the limit clauses (the word limit, white space, digits) of t start
LimitClauses(t) ==
    LET n == Lower(t)
    IN  {k \in 1..Len(n) : MatchAt(n, "limit", k) /\ LimitClauseAt(n, k)}

\* the text inside the wrapping, without its trailing separator
Statement ==
    IF endswith(Text, ";") THEN rstrip(SubSeq(Text, 1, Len(Text) - 1)) ELSE Text

DefaultClause == " LIMIT " \o ToString(DEFAULT_LIMIT)

\* C14: an accepted text without the word limit is returned, as written or with its
\* white space collapsed, followed by " LIMIT 1000"; an accepted text that holds a limit
\* clause is returned with as many limit clauses as it had.
C14_DefaultLimit ==
    Accepted =>
        /\ ~HasWord(Lower(Text), "limit") =>
               result \in {Statement \o DefaultClause, _collapse_ws(Statement) \o DefaultClause}
        /\ LimitClauses(Text) # {} =>
               Cardinality(LimitClauses(result)) = Cardinality(LimitClauses(Text))

\* t with the numeral of every limit clause whose value exceeds MAX_LIMIT replaced by
\* MAX_LIMIT, and nothing else changed
ClampNumerals(t) ==
    LET n         == Lower(t)
        Numeral(k) == RunEnd(n, SpaceChars, k + 5)
        End(j)    == RunEnd(n, DigitChars, j)
        Starts(j) == \E k \in LimitClauses(t) :
                        j = Numeral(k) /\ int(SubSeq(n, j, End(j) - 1)) > MAX_LIMIT
    IN  Substitute(t, Starts, End, ToString(MAX_LIMIT), 1)

\* C15: an accepted text with a limit clause is returned, as written or with its white
\* space collapsed, with the numerals of the limit clauses over MAX_LIMIT replaced by
\* MAX_LIMIT and no other character changed; so a text whose limit values are all at
\* most MAX_LIMIT is returned as it is.
C15_ClampFrame ==
    (Accepted /\ LimitClauses(Text) # {}) =>
        result \in {ClampNumerals(Statement), ClampNumerals(_collapse_ws(Statement))}

\* what the limit adjustment can make of the text t: t itself, t followed by the default
\* clause, or t with its limit clauses rewritten to MAX_LIMIT
LimitAdjusted(t) ==
    {t, t \o DefaultClause, SubLimit(t, "LIMIT " \o ToString(MAX_LIMIT))}

\* the statement of C16 as it was made: the returned string is the white-space-collapsed
\* text, without its trailing separator, followed only by the limit adjustment
C16_Original ==
    (Accepted /\ Wrapped) => result \in LimitAdjusted(_collapse_ws(Statement))

\* C16: the returned string is the text inside the wrapping in its original case and with
\* its inner white space as written, without its trailing separator, followed only by the
\* limit adjustment; the case-folded, white-space-collapsed copy is never returned.
C16_RawOutputForm ==
    (Accepted /\ Wrapped) => result \in LimitAdjusted(Statement)

\* a text with upper-case letters and a line break inside was accepted
C16_Witness ==
    /\ Accepted
    /\ Wrapped
    /\ Contains(Statement, "\n")
    /\ Statement # Lower(Statement)
    /\ Contains(result, "\n")

-----------------------------------------------------------------------------
(* Properties of the column stage *)

\* the projection of the text t: what stands between its first word, select, and its
\* first whole-word from, case-folded and trimmed
ProjectionOf(t) ==
    LET n       == Lower(_collapse_ws(t))
        From(k) == WordAt(n, "from", k)
    IN  strip(SubSeq(n, 7, First(From, 1, Len(n)) - 1))

\* where the identifier tokens of p start
IdentifierStarts(p) ==
    {i \in 1..Len(p) : Char(p, i) \in IdentStartChars /\ (i = 1 \/ ~IsWord(Char(p, i - 1)))}

NameAt(p, i) == SubSeq(p, i, RunEnd(p, WordChars, i) - 1)

\* the word as at k introduces the alias at i
Aliases(p, k, i) == NameAt(p, k) = "as" /\ i > k + 2 /\ RunEnd(p, SpaceChars, k + 2) = i

\* the suspicious tokens of the projection p for the table t: the identifier tokens, the
\* named aliases and their as left out, that are no keyword or function name, not the
\* unqualified table name and no allowed column
SuspiciousTokens(p, t) ==
    LET I     == IdentifierStarts(p)
        Alias == {i \in I : \E k \in I : Aliases(p, k, i)} \cup
                 {k \in I : \E i \in I : Aliases(p, k, i)}
    IN  {NameAt(p, i) : i \in I \ Alias}
            \ (FunctionTokens \cup KeywordTokens \cup {LastDotPart(t)} \cup ALLOWED_COLUMNS[t])

\* d lists, in ascending order, the least tokens of S, ten of them at most
SortedTruncated(d, S) ==
    /\ Len(d) = IF Cardinality(S) < 10 THEN Cardinality(S) ELSE 10
    /\ Range(d) \subseteq S
    /\ \A i, j \in 1..Len(d) : i < j => StrLess(d[i], d[j])
    /\ \A x \in S \ Range(d) : \A y \in Range(d) : StrLess(y, x)

\* the call passed the table check: it ended in the column stage or later
PassedTableCheck == Accepted \/ Rejected(TooManyUnknownColumns)

\* C17: a call that passed the table check on a table with an ALLOWED_COLUMNS entry, with
\* a projection that does not begin with the wildcard, is rejected with
\* TooManyUnknownColumns if and only if the projection holds 3 or more suspicious tokens,
\* and the rejection lists them sorted, without duplicates, ten at most.
C17_ColumnThreshold ==
    (PassedTableCheck /\ table \in DOMAIN ALLOWED_COLUMNS
                      /\ ~startswith(ProjectionOf(Statement), "*")) =>
        /\ Rejected(TooManyUnknownColumns) <=>
               Cardinality(SuspiciousTokens(ProjectionOf(Statement), table)) >= 3
        /\ Rejected(TooManyUnknownColumns) =>
               SortedTruncated(error.detail, SuspiciousTokens(ProjectionOf(Statement), table))

\* white space stands before the first whole-word from of the text t
SpaceBeforeFrom(t) ==
    LET n       == Lower(_collapse_ws(t))
        From(k) == WordAt(n, "from", k)
        f       == First(From, 1, Len(n))
    IN  f > 1 /\ f <= Len(n) /\ IsSpace(Char(n, f - 1))

\* C18: in a call that passed the table check on a table with an ALLOWED_COLUMNS entry,
\* the column stage collects no tokens exactly when the projection is the wildcard alone;
\* a projection that begins with the wildcard and goes on with 3 or more suspicious
\* tokens is rejected with TooManyUnknownColumns.
C18_WildcardShortCircuit ==
    (PassedTableCheck /\ table \in DOMAIN ALLOWED_COLUMNS /\ SpaceBeforeFrom(Statement)) =>
        /\ selected = None <=> ProjectionOf(Statement) = "*"
        /\ ( /\ startswith(ProjectionOf(Statement), "*")
             /\ Cardinality(SuspiciousTokens(ProjectionOf(Statement), table)) >= 3 )
               => Rejected(TooManyUnknownColumns)

\* C19: validating a text with fence marks ends as validating its interior alone does
\* (the trimmed interior of the first block tagged sql or, without such a block, the text
\* with its fence marks removed, trimmed): the same returned string, or the same rejection.
C19_FenceNormalization ==
    SecondEnded("interior") =>
        /\ Accepted <=> earlier[1].accepted
        /\ result = earlier[1].result
        /\ error = earlier[1].error

-----------------------------------------------------------------------------
(* Properties of the Ask AI page *)

\* C20: the page gives the engine a statement only when validate_sql has returned for the
\* request under way, and that statement is the string validate_sql returned; when
\* validate_sql has raised, nothing is given to the engine and validate_sql is not called
\* again before the request is over.
C20_ExecuteOnlyValidated ==
    /\ [](executed # None => (pc = "returned" /\ executed = Some(result)))
    /\ [][pc = "raised" =>
            \/ pc' = "raised" /\ executed' = None
            \/ pc' = "idle" /\ app' = "idle" /\ executed' = None]_vars

\* the page has given the engine the validated statement and shows the result
C20_Witness ==
    /\ app = "result_shown"
    /\ pc = "returned"
    /\ executed = Some(result)
    /\ result # sql_or_text

-----------------------------------------------------------------------------
(* Properties of the daily pipeline *)

\* the stages in their order
StageOrder == <<GenerateStage, LoadStage, DqStage, InsightStage>>

\* the place of the stage that the entry e of the trace ran
Place(e) == CHOOSE k \in 1..Len(StageOrder) : StageOrder[k] = e.cmd[1]

\* the stages the arguments ask for, in their order
Asked ==
    SelectSeq(StageOrder, LAMBDA st :
        /\ st = GenerateStage => ~args.skip_generate
        /\ st = InsightStage => args.with_llm)

\* C21: the stages a run has run are the first of the stages its arguments ask for, in
\* that order (generation unless --skip-generate, load, report, insight only with
\* --with-llm); every stage but the last one run has succeeded; a run is aborted exactly
\* when the last stage run has failed, and is done only when every stage asked for has
\* run and succeeded.
C21_StageOrder ==
    /\ Len(trace) <= Len(Asked)
    /\ \A k \in 1..Len(trace) : trace[k].cmd[1] = Asked[k]
    /\ \A k \in 1..(Len(trace) - 1) : trace[k].ok
    /\ stage = "aborted" <=> (trace # <<>> /\ ~trace[Len(trace)].ok)
    /\ stage = "done" => (Len(trace) = Len(Asked) /\ \A k \in 1..Len(trace) : trace[k].ok)

\* a run without generation and with insight was aborted by its failing report stage
C21_Witness ==
    /\ stage = "aborted"
    /\ args.skip_generate
    /\ args.with_llm
    /\ Len(trace) = 2
    /\ trace[2].cmd[1] = DqStage
    /\ trace[1].ok

-----------------------------------------------------------------------------
(* Properties of the insight store *)

\* the rows of the table t whose event_date is d
RowsOf(t, d) == IF t = None THEN <<>> ELSE SelectSeq(t[1], LAMBDA r : r.event_date = d)

\* C22: whatever save_outputs calls have been made, mart_daily_insight holds at most one
\* row for each event_date; after a successful call the row of the call's date carries
\* the call's content; and a call leaves the rows of every other date as they were.
C22_InsightUpsert ==
    /\ [](\A d \in Dates : Len(RowsOf(mart_daily_insight, d)) <= 1)
    /\ [](saved.ok => RowsOf(mart_daily_insight, saved.date_str)
                         = <<[event_date |-> saved.date_str, summary_md |-> saved.md]>>)
    /\ [][\A d \in Dates \ {saved'.date_str} :
             RowsOf(mart_daily_insight', d) = RowsOf(mart_daily_insight, d)]_vars

\* a date was saved again with another content while another date has its row
C22_Witness ==
    /\ saved.ok
    /\ DOMAIN reports = {"insight_20260218.md", "insight_20260219.md"}
    /\ saved.date_str = "2026-02-19"
    /\ saved.md = "# anomaly"
    /\ mart_daily_insight # None
    /\ Len(mart_daily_insight[1]) = 2
    /\ mart_daily_insight[1][1].event_date = "2026-02-18"

-----------------------------------------------------------------------------
(* Properties of the raw load *)

\* the rows of the table rows whose event_date is d
RowsOn(rows, d) == SelectSeq(rows, LAMBDA r : r.event_date = d)

\* a file of the date d is not there
Missing(d) ==
    \/ "ad_events_" \o yyyymmdd(d) \o ".csv" \notin DOMAIN csv
    \/ "payment_events_" \o yyyymmdd(d) \o ".csv" \notin DOMAIN csv

\* C23: when a load of the date d succeeds, the rows of d in raw.ad_events and in
\* raw.payment_events are from then on the rows of the two files of d, whatever was
\* loaded before (a step that leaves the files alone is a load); a call leaves the rows of the
\* other dates as they were; and a call for a date of which a file is missing fails with
\* FileNotFoundError and leaves both tables as they were.
C23_RerunSafeLoad ==
    /\ [][(csv' = csv /\ loaded'.outcome = "ok") =>
             /\ RowsOn(raw_ad_events', loaded'.date_str)
                    = csv["ad_events_" \o yyyymmdd(loaded'.date_str) \o ".csv"]
             /\ RowsOn(raw_payment_events', loaded'.date_str)
                    = csv["payment_events_" \o yyyymmdd(loaded'.date_str) \o ".csv"]]_vars
    /\ [][\A d \in LoadDates \ {loaded'.date_str} :
             /\ RowsOn(raw_ad_events', d) = RowsOn(raw_ad_events, d)
             /\ RowsOn(raw_payment_events', d) = RowsOn(raw_payment_events, d)]_vars
    /\ [][(csv' = csv /\ loaded'.date_str \in LoadDates /\ Missing(loaded'.date_str)) =>
             /\ loaded'.outcome = "FileNotFoundError"
             /\ UNCHANGED <<raw_ad_events, raw_payment_events>>]_vars

\* a date is loaded from files of two runs of the generator, after another date
C23_Witness ==
    /\ loaded = [date_str |-> "2026-02-19", outcome |-> "ok"]
    /\ Len(raw_ad_events) = 4
    /\ raw_ad_events[1].event_date = "2026-02-18"
    /\ raw_ad_events[4].revenue = "low"
    /\ raw_payment_events[2].status = "success"

=============================================================================
